---- MODULE Spec2Model ----
(***************************************************************************)
(* State-machine model of CANopenSDOClient (src/bms_canopen_client.py):    *)
(* the connection lifecycle, the SDO upload (read_sdo) and expedited       *)
(* download (write_sdo) polling loops, and scan_network, together with the *)
(* bus they talk to (nodes answering requests, foreign traffic).           *)
(*                                                                         *)
(* Python's Optional is modelled as a sequence of length 0 (None) or 1.    *)
(* Time is counted in ticks of one receive slice (0.1 s).                  *)
(***************************************************************************)
EXTENDS Integers, Sequences, FiniteSets, TLC

\* ------------------------------------------------------------ bounds
MaxHandles == 2      \* transports can.Bus() hands out in one run
MaxSent    == 1      \* request frames put on the bus in one run
MaxNoise   == 1      \* frames on the bus that answer no request of the client

\* ------------------------------------------------- protocol constants
SDO_RX_BASE == 1536  \* 0x600 + node_id: requests
SDO_TX_BASE == 1408  \* 0x580 + node_id: responses
CMD_UPLOAD  == 64    \* 0x40 initiate upload
CMD_ABORT   == 128   \* 0x80
CMD_DL_OK   == 96    \* 0x60 download response
CMD_DEFAULT == 35    \* 0x23, the default of cmd_map.get
MAX_EXPEDITED == 4
SCAN_INDEX  == 4096  \* 0x1000 device type
SCAN_TIMEOUT == 1    \* 0.1 s
RECV_SLICE  == 1     \* recv(timeout=0.1) in write_sdo
READ_TIMEOUT == 5    \* timeout: float = 0.5, the default of read_sdo
MIN_NODE    == 1     \* range(1, 128), the default range of scan_network
MAX_NODE    == 127

UploadResponses == {67, 71, 75, 79}      \* 0x43 0x47 0x4B 0x4F

None == << >>
Some(x) == << x >>
IsNone(o) == o = << >>
The(o) == o[1]

\* ------------------------------------------------------------ inputs
\* the node the caller reads and writes directly; scans also probe node 2
Nodes == {1}
\* object references (index, subindex) the callers use: 0x1000:00, 0x6081:00
Objs == { <<4096, 0>>, <<24705, 0>> }
\* the timeout argument, in ticks
Timeouts == {2}
\* payloads a node puts in bytes 4..7: abort code 0, and 0x060203E8
Payloads == { <<0, 0, 0, 0>>, <<232, 3, 2, 6>> }
\* payloads handed to write_sdo: lengths 0..5
WriteData == { << >>, <<7>>, <<7, 8>>, <<7, 8, 9>>, <<7, 8, 9, 10>>, <<7, 8, 9, 10, 11>> }
\* the ranges scan_network is called with
ScanRanges == { <<1>>, <<1, 2>> }

VARIABLES
    bus,      \* self.bus: 0 is None, otherwise the transport handle
    acquired, \* number of handles can.Bus() has returned so far
    shut,     \* shut[h]: how many times handle h's shutdown() was called
    nsent,    \* number of request frames put on the bus so far
    pending,  \* the requests on the bus that their node has not answered yet
    rx,       \* the open transport's receive queue
    noise,    \* foreign frames put on the bus so far
    pc,       \* where the client is: "idle", or in "read", "write" or "scan"
    cur,      \* the arguments of the current (or last) read_sdo / write_sdo call
    elapsed,  \* time.time() - start of that call
    seen,     \* the frames bus.recv() returned to that call
    out,      \* the frames the current (or last) public call passed to bus.send()
    outer,    \* scan_network's loop state while it is the caller of read_sdo
    ret,      \* what the last completed call returned and logged
    svc       \* the monitoring service that owns the client, if there is one

conn == << bus, acquired, shut >>
vars == << bus, acquired, shut, nsent, pending, rx, noise, pc, cur, elapsed, seen, out,
           outer, ret, svc >>

\* ------------------------------------------------------------ bytes
Lo(index) == index % 256
Hi(index) == (index \div 256) % 256

\* Python's data[a:b] with 0-based a, b on a sequence
Slice(s, a, b) ==
    LET hi == IF b < Len(s) THEN b ELSE Len(s)
    IN  IF a >= hi THEN << >> ELSE SubSeq(s, a + 1, hi)

RECURSIVE FromBytesLittle(_)
\* int.from_bytes(b, 'little'); also struct.unpack('<I', b) when Len(b) = 4
FromBytesLittle(b) ==
    IF b = << >> THEN 0 ELSE b[1] + 256 * FromBytesLittle(Tail(b))

Zeros(n) == [i \in 1 .. n |-> 0]

\* ------------------------------------------------------------ results
\* What a call handed back: value is the returned object (read_sdo: the pair
\* <<data, abort>> of Optionals; write_sdo and connect: a boolean; scan_network:
\* the list of nodes), log the last message the call logged, code the abort
\* code in that message, raised whether the call ended in an exception.
Ret(op, value, log, code) ==
    [op |-> op, value |-> value, log |-> log, code |-> code, raised |-> FALSE]

NoRet == Ret("none", None, "", 0)

NoCall == [op |-> "none", node |-> 0, index |-> 0, subindex |-> 0, data |-> << >>,
           timeout |-> 0, req |-> -1]
\* The public call that read_sdo is running for: scan_network (todo: addresses
\* left, active: active_nodes), read_all_parameters (todo: names left, active:
\* the result dictionary in insertion order) or read_parameter. done is the
\* history of the read_parameter calls made so far: the name, what read_sdo
\* returned for it, and whether its request went onto the bus.
WasSent(log) == log \notin {"CAN bus not connected", "Failed to send SDO request"}

\* A client that is used directly, without the monitoring service.
NoService == [phase |-> "none"]

NoOuter == [kind |-> "none", node |-> 0, todo |-> << >>, active |-> << >>, done |-> << >>]

Init ==
    /\ bus = 0
    /\ acquired = 0
    /\ shut = [h \in {} |-> 0]
    /\ nsent = 0
    /\ pending = {}
    /\ rx = << >>
    /\ noise = 0
    /\ pc = "idle"
    /\ cur = NoCall
    /\ elapsed = 0
    /\ seen = << >>
    /\ out = << >>
    /\ outer = NoOuter
    /\ ret = NoRet
    /\ svc = NoService

\* ------------------------------------------------- connect / disconnect
\* connect(): can.Bus(...) either returns a new transport, which is assigned to
\* self.bus whatever self.bus held, or raises, which leaves self.bus as it was.
\* A new socket starts with an empty receive queue.
ConnectBus(ok) ==
    IF ok
    THEN /\ bus' = acquired + 1
         /\ acquired' = acquired + 1
         /\ shut' = [h \in 1 .. acquired + 1 |-> IF h <= acquired THEN shut[h] ELSE 0]
         /\ rx' = << >>
    ELSE UNCHANGED << bus, acquired, shut, rx >>

Connect(ok) ==
    /\ pc = "idle"
    /\ acquired < MaxHandles
    /\ ConnectBus(ok)
    /\ ret' = Ret("connect", ok, IF ok THEN "Connected" ELSE "Failed to connect to CAN bus", 0)
    /\ UNCHANGED << svc, nsent, pending, noise, pc, cur, elapsed, seen, out, outer >>

\* DisconnectBus without the assignment self.bus = None.
DisconnectBusKeepsHandle ==
    IF bus # 0
    THEN /\ shut' = [shut EXCEPT ![bus] = @ + 1]
         /\ rx' = << >>
         /\ UNCHANGED bus
    ELSE UNCHANGED << bus, shut, rx >>

\* disconnect(): if self.bus: self.bus.shutdown(); self.bus = None
DisconnectBus ==
    IF bus # 0
    THEN /\ shut' = [shut EXCEPT ![bus] = @ + 1]
         /\ bus' = 0
         /\ rx' = << >>
    ELSE UNCHANGED << bus, shut, rx >>

Disconnect ==
    /\ pc = "idle"
    /\ DisconnectBus
    /\ ret' = Ret("disconnect", None, IF bus # 0 THEN "Disconnected from CAN bus" ELSE "", 0)
    /\ UNCHANGED << svc, acquired, nsent, pending, noise, pc, cur, elapsed, seen, out, outer >>

\* ------------------------------------------------------------ the bus
\* re is the number of the request (nsent when it was sent) a frame answers, -1
\* for a frame that answers none.
Frame(id, data, re) == [id |-> id, data |-> data, re |-> re]

\* A node's answer to the request frame q: the command byte, the echoed index
\* and sub-index, four payload bytes.
ResponseData(q, cmd, payload) == << cmd, q.data[2], q.data[3], q.data[4] >> \o payload

\* An upload of a 4-byte object is answered with 0x43, of a 1-byte object
\* with 0x4F; a download with 0x60; either may be refused with 0x80.
ResponseCmds(q) ==
    IF q.data[1] = CMD_UPLOAD
    THEN {IF q.data[2] = 0 THEN 67 ELSE 79, CMD_ABORT}
    ELSE {CMD_DL_OK, CMD_ABORT}

\* A request as the bus carries it: its number, identity and payload.
Request(req, id, data) == [req |-> req, id |-> id, data |-> data]

\* The node addressed by the pending request q answers it, at any time after
\* it was sent: before the call's deadline or after the call has given up.
\* The frame reaches the socket that is open at that time.
NodeRespond(q, cmd, payload) ==
    /\ bus # 0
    /\ q \in pending
    /\ cmd \in ResponseCmds(q)
    /\ cmd = CMD_DL_OK => payload = Zeros(4)
    /\ rx' = Append(rx, Frame(q.id - SDO_RX_BASE + SDO_TX_BASE,
                              ResponseData(q, cmd, payload), q.req))
    /\ pending' = pending \ {q}
    /\ UNCHANGED << svc, conn, nsent, noise, pc, cur, elapsed, seen, out, outer, ret >>

\* Frames that answer no request of this client.  For a read: an empty
\* frame, an abort too short to hold a code, an unknown command byte, an
\* upload response with one data byte, a request of another master to the same
\* node, an upload response of another node.
ReadForeign ==
    { Frame(SDO_TX_BASE + 1, d, -1) :
        d \in { << >>, <<128>>, <<65, 0, 16, 0, 1, 0, 0, 0>>, <<79, 0, 16, 0, 5>> } }
    \cup { Frame(SDO_RX_BASE + 1, <<67, 0, 16, 0, 9, 0, 0, 0>>, -1),
           Frame(SDO_TX_BASE + 2, <<67, 0, 16, 0, 9, 0, 0, 0>>, -1) }

\* For a write: an empty frame, a short abort, a download response too short
\* to hold its echo, a download response for another object, an unknown
\* command byte, a download response of another node for the same object.
WriteForeign ==
    { Frame(SDO_TX_BASE + 1, d, -1) :
        d \in { << >>, <<128>>, <<96>>, <<96, 24, 16, 2, 0, 0, 0, 0>>,
                <<65, 0, 16, 0, 1, 0, 0, 0>> } }
    \cup { Frame(SDO_TX_BASE + 2, <<96, 0, 16, 0, 0, 0, 0, 0>>, -1) }

\* An upload response of node 1 with a single data byte.
ParamForeign == { Frame(SDO_TX_BASE + 1, << 79, 0, 16, 0, 5 >>, -1) }

ForeignFrames == ReadForeign \cup WriteForeign

Inject(f) ==
    /\ bus # 0
    /\ noise < MaxNoise
    /\ rx' = Append(rx, f)
    /\ noise' = noise + 1
    /\ UNCHANGED << svc, conn, nsent, pending, pc, cur, elapsed, seen, out, outer, ret >>

\* ------------------------------------------------------------ read_sdo
UploadRequest(index, subindex) ==
    << CMD_UPLOAD, Lo(index), Hi(index), subindex, 0, 0, 0, 0 >>

\* ReadClassify with the abort code unpacked from bytes 0..3 of the frame.
ReadClassifyCodeFromHead(f, node_id) ==
    IF f.id # SDO_TX_BASE + node_id THEN [kind |-> "continue"]
    ELSE IF Len(f.data) = 0 THEN [kind |-> "continue"]
    ELSE IF f.data[1] = CMD_ABORT
         THEN IF Len(Slice(f.data, 0, 4)) # 4 THEN [kind |-> "continue"]
              ELSE [kind |-> "abort", code |-> FromBytesLittle(Slice(f.data, 0, 4))]
    ELSE IF f.data[1] \in UploadResponses
         THEN [kind |-> "data", data |-> Slice(f.data, 4, 8)]
    ELSE [kind |-> "continue"]

\* ReadClassify without the comparison of arbitration_id with 0x580 + node_id.
ReadClassifyAnyId(f, node_id) ==
    IF Len(f.data) = 0 THEN [kind |-> "continue"]
    ELSE IF f.data[1] = CMD_ABORT
         THEN IF Len(Slice(f.data, 4, 8)) # 4 THEN [kind |-> "continue"]
              ELSE [kind |-> "abort", code |-> FromBytesLittle(Slice(f.data, 4, 8))]
    ELSE IF f.data[1] \in UploadResponses
         THEN [kind |-> "data", data |-> Slice(f.data, 4, 8)]
    ELSE [kind |-> "continue"]

\* ReadClassify that looks for the answer under the identity of the request.
ReadClassifyRequestId(f, node_id) ==
    IF f.id # SDO_RX_BASE + node_id THEN [kind |-> "continue"]
    ELSE IF Len(f.data) = 0 THEN [kind |-> "continue"]
    ELSE IF f.data[1] = CMD_ABORT
         THEN IF Len(Slice(f.data, 4, 8)) # 4 THEN [kind |-> "continue"]
              ELSE [kind |-> "abort", code |-> FromBytesLittle(Slice(f.data, 4, 8))]
    ELSE IF f.data[1] \in UploadResponses
         THEN [kind |-> "data", data |-> Slice(f.data, 4, 8)]
    ELSE [kind |-> "continue"]

\* What one loop iteration of read_sdo does with a received frame f:
\* "abort" and "data" return, "continue" polls again.  An IndexError or
\* struct.error raised while looking at a short frame is caught by the loop's
\* except clause, which also polls again.
ReadClassify(f, node_id) ==
    IF f.id # SDO_TX_BASE + node_id THEN [kind |-> "continue"]
    ELSE IF Len(f.data) = 0 THEN [kind |-> "continue"]
    ELSE IF f.data[1] = CMD_ABORT
         THEN IF Len(Slice(f.data, 4, 8)) # 4 THEN [kind |-> "continue"]
              ELSE [kind |-> "abort", code |-> FromBytesLittle(Slice(f.data, 4, 8))]
    ELSE IF f.data[1] \in UploadResponses
         THEN [kind |-> "data", data |-> Slice(f.data, 4, 8)]
    ELSE [kind |-> "continue"]

\* scan_network's use of one read_sdo result: decode_value(raw, 'UINT32')
\* is None for fewer than 4 bytes, and formatting None with :08X raises.
ScanAfterRead(value, log) ==
    LET entry == [name |-> Head(outer.todo), value |-> value, sent |-> WasSent(log)]
    IN  IF IsNone(value[1])
        THEN /\ pc' = "scan"
             /\ outer' = [outer EXCEPT !.todo = Tail(@), !.done = Append(@, entry)]
        ELSE IF Len(The(value[1])) < 4
        THEN /\ pc' = "idle"
             /\ outer' = [outer EXCEPT !.kind = "none", !.done = Append(@, entry)]
        ELSE /\ pc' = "scan"
             /\ outer' = [outer EXCEPT !.todo = Tail(@),
                                       !.active = Append(@, Head(outer.todo)),
                                       !.done = Append(@, entry)]

\* ------------------------------------------------ decode_value, SDO_MAP
\* Three entries of SDO_MAP, in the order the dictionary declares them.
RegistryNames == << "voltage", "soc", "temperature" >>

SDO_MAP ==
    [ voltage     |-> [index |-> 24672, subindex |-> 0, data_type |-> "INT32", divisor |-> 1024],
      soc         |-> [index |-> 24705, subindex |-> 0, data_type |-> "UINT8", divisor |-> 1],
      temperature |-> [index |-> 24592, subindex |-> 0, data_type |-> "INT16", divisor |-> 8] ]

\* The names a caller passes to read_parameter.
ParamNames == { "voltage", "soc", "bogus" }

\* Lookup that reads a name it does not know as the state of charge.
LookupFallsBack(name) ==
    IF name \in DOMAIN SDO_MAP THEN Some(SDO_MAP[name]) ELSE Some(SDO_MAP["soc"])

\* if param_name not in self.SDO_MAP ... sdo = self.SDO_MAP[param_name]
Lookup(name) == IF name \in DOMAIN SDO_MAP THEN Some(SDO_MAP[name]) ELSE None

\* struct.unpack of a signed little-endian integer of Len(b) bytes.
SignedLittle(b) ==
    LET n == Len(b)
        hi == b[n]
    IN  FromBytesLittle(SubSeq(b, 1, n - 1)) + (IF hi >= 128 THEN hi - 256 ELSE hi) * 256 ^ (n - 1)

\* struct.unpack(fmt, raw_data[:n]) raises unless the slice has n bytes, and
\* raw_data[0] raises on empty data; decode_value turns both into None.
Unpack(raw, n, signed) ==
    LET b == Slice(raw, 0, n)
    IN  IF Len(b) # n THEN None
        ELSE Some(IF signed THEN SignedLittle(b) ELSE FromBytesLittle(b))

\* The data types decode_value tells apart.
DataTypes == { "UINT8", "INT8", "UINT16", "INT16", "UINT32", "INT32" }

\* A decode_value that reads the one-byte and two-byte types as unsigned.
DecodeValueShortUnsigned(raw, data_type) ==
    CASE data_type = "UINT8"  -> IF Len(raw) = 0 THEN None ELSE Some(raw[1])
      [] data_type = "INT8"   -> Unpack(raw, 1, FALSE)
      [] data_type = "UINT16" -> Unpack(raw, 2, FALSE)
      [] data_type = "INT16"  -> Unpack(raw, 2, FALSE)
      [] data_type = "UINT32" -> Unpack(raw, 4, FALSE)
      [] data_type = "INT32"  -> Unpack(raw, 4, TRUE)
      [] OTHER                -> None

DecodeValue(raw, data_type) ==
    CASE data_type = "UINT8"  -> IF Len(raw) = 0 THEN None ELSE Some(raw[1])
      [] data_type = "INT8"   -> Unpack(raw, 1, TRUE)
      [] data_type = "UINT16" -> Unpack(raw, 2, FALSE)
      [] data_type = "INT16"  -> Unpack(raw, 2, TRUE)
      [] data_type = "UINT32" -> Unpack(raw, 4, FALSE)
      [] data_type = "INT32"  -> Unpack(raw, 4, TRUE)
      [] OTHER                -> None

\* What decode_value logs: the else branch names the unknown type, the except
\* branch reports the exception, a decoded value logs nothing.
DecodeLog(raw, data_type) ==
    IF data_type \notin DataTypes THEN "Unknown data type"
    ELSE IF IsNone(DecodeValue(raw, data_type)) THEN "Failed to decode"
    ELSE ""

\* raw_value / sdo.divisor, kept as the exact quotient.
Converted(raw_value, divisor) == [num |-> raw_value, den |-> divisor]

\* read_parameter after read_sdo has returned value = <<raw_data, abort>>.
ParamResult(name, value) ==
    IF ~IsNone(value[2]) THEN None
    ELSE IF IsNone(value[1]) THEN None
    ELSE LET raw_value == DecodeValue(The(value[1]), SDO_MAP[name].data_type)
         IN  IF IsNone(raw_value) THEN None
             ELSE Some(Converted(The(raw_value), SDO_MAP[name].divisor))

ParamLog(name, value) ==
    IF ~IsNone(value[2]) THEN "not available (abort)"
    ELSE IF IsNone(value[1]) THEN "timeout"
    ELSE IF IsNone(ParamResult(name, value)) THEN "Failed to decode"
    ELSE "converted"

\* ParamAfterRead with "if value:" in the loop body: a value of zero is dropped.
ParamAfterReadDropsZero(value, log, code) ==
    LET name == Head(outer.todo)
        result == ParamResult(name, value)
        entry == [name |-> name, value |-> value,
                  sent |-> WasSent(log)]
    IN  /\ ret' = Ret("param", result, ParamLog(name, value), code)
        /\ IF outer.kind = "all"
           THEN /\ pc' = "all"
                /\ outer' = [outer EXCEPT
                                !.todo = Tail(@),
                                !.active = IF IsNone(result) \/ The(result).num = 0 THEN @
                                           ELSE Append(@, [name |-> name, value |-> The(result)]),
                                !.done = Append(@, entry)]
           ELSE /\ pc' = "idle"
                /\ outer' = [outer EXCEPT !.kind = "none", !.done = Append(@, entry)]

\* ParamAfterRead with a loop that gives up at the first name without a value.
ParamAfterReadStopsOnFailure(value, log, code) ==
    LET name == Head(outer.todo)
        result == ParamResult(name, value)
        entry == [name |-> name, value |-> value,
                  sent |-> WasSent(log)]
    IN  /\ ret' = Ret("param", result, ParamLog(name, value), code)
        /\ IF outer.kind = "all"
           THEN /\ pc' = "all"
                /\ outer' = [outer EXCEPT
                                !.todo = IF IsNone(result) THEN << >> ELSE Tail(@),
                                !.active = IF IsNone(result) THEN @
                                           ELSE Append(@, [name |-> name, value |-> The(result)]),
                                !.done = Append(@, entry)]
           ELSE /\ pc' = "idle"
                /\ outer' = [outer EXCEPT !.kind = "none", !.done = Append(@, entry)]

\* read_parameter returns; in read_all_parameters the loop body stores the
\* value when it is not None and goes on with the next name.
ParamAfterRead(value, log, code) ==
    LET name == Head(outer.todo)
        result == ParamResult(name, value)
        entry == [name |-> name, value |-> value, sent |-> WasSent(log)]
    IN  /\ ret' = Ret("param", result, ParamLog(name, value), code)
        /\ IF outer.kind = "all"
           THEN /\ pc' = "all"
                /\ outer' = [outer EXCEPT
                                !.todo = Tail(@),
                                !.active = IF IsNone(result) THEN @
                                           ELSE Append(@, [name |-> name, value |-> The(result)]),
                                !.done = Append(@, entry)]
           ELSE /\ pc' = "idle"
                /\ outer' = [outer EXCEPT !.kind = "none", !.done = Append(@, entry)]

\* read_sdo returns value = <<data, abort>> to its caller.
ReadDone(value, log, code) ==
    IF outer.kind = "scan"
    THEN /\ ret' = IF ~IsNone(value[1]) /\ Len(The(value[1])) < 4
                   THEN [Ret("scan", None, "TypeError", 0) EXCEPT !.raised = TRUE]
                   ELSE Ret("read", value, log, code)
         /\ ScanAfterRead(value, log)
    ELSE IF outer.kind \in {"param", "all"}
    THEN ParamAfterRead(value, log, code)
    ELSE /\ ret' = Ret("read", value, log, code)
         /\ pc' = "idle"
         /\ outer' = outer

\* Send that puts the frame on the bus twice.
SendTwice(id, data, sofar) ==
    /\ nsent' = nsent + 1
    /\ pending' = pending \cup {Request(nsent + 1, id, data)}
    /\ out' = sofar \o << [id |-> id, data |-> data], [id |-> id, data |-> data] >>

\* bus.send(msg) succeeds: the frame is on the bus, its node may answer it.
Send(id, data, sofar) ==
    /\ nsent' = nsent + 1
    /\ pending' = pending \cup {Request(nsent + 1, id, data)}
    /\ out' = Append(sofar, [id |-> id, data |-> data])

\* The frames the public call in progress has sent: scan_network's earlier
\* probes when it is the caller, none for a direct call.
SentSoFar == IF outer.kind \in {"scan", "all"} THEN out ELSE << >>

\* ReadStart without the test of self.bus.
ReadStartNoBusCheck(node_id, index, subindex, timeout, sendOk) ==
    /\ cur' = [op |-> "read", node |-> node_id, index |-> index, subindex |-> subindex,
               data |-> << >>, timeout |-> timeout,
               req |-> IF sendOk THEN nsent + 1 ELSE -1]
    /\ elapsed' = 0
    /\ seen' = << >>
    /\ IF ~sendOk
       THEN /\ ReadDone(<<None, None>>, "Failed to send SDO request", 0)
            /\ out' = SentSoFar
            /\ UNCHANGED << nsent, pending >>
       ELSE /\ Send(SDO_RX_BASE + node_id, UploadRequest(index, subindex), SentSoFar)
            /\ pc' = "read"
            /\ ret' = NoRet
            /\ outer' = outer
    /\ UNCHANGED << svc, conn, rx, noise >>

\* read_sdo up to and including bus.send().
ReadStart(node_id, index, subindex, timeout, sendOk) ==
    /\ cur' = [op |-> "read", node |-> node_id, index |-> index, subindex |-> subindex,
               data |-> << >>, timeout |-> timeout,
               req |-> IF bus # 0 /\ sendOk THEN nsent + 1 ELSE -1]
    /\ elapsed' = 0
    /\ seen' = << >>
    /\ IF bus = 0
       THEN /\ ReadDone(<<None, None>>, "CAN bus not connected", 0)
            /\ out' = SentSoFar
            /\ UNCHANGED << nsent, pending >>
       ELSE IF ~sendOk
       THEN /\ ReadDone(<<None, None>>, "Failed to send SDO request", 0)
            /\ out' = SentSoFar
            /\ UNCHANGED << nsent, pending >>
       ELSE /\ Send(SDO_RX_BASE + node_id, UploadRequest(index, subindex), SentSoFar)
            /\ pc' = "read"
            /\ ret' = NoRet
            /\ outer' = outer
    /\ UNCHANGED << svc, conn, rx, noise >>

ReadSdo(node_id, index, subindex, timeout, sendOk) ==
    /\ pc = "idle"
    /\ (bus # 0 /\ sendOk) => nsent < MaxSent
    /\ ReadStart(node_id, index, subindex, timeout, sendOk)

\* One iteration of the while loop in which bus.recv() returns a frame, dt
\* ticks after it was called.
ReadRecvFrame(dt) ==
    /\ pc = "read"
    /\ elapsed < cur.timeout
    /\ rx # << >>
    /\ elapsed + dt <= cur.timeout
    /\ rx' = Tail(rx)
    /\ seen' = Append(seen, Head(rx))
    /\ elapsed' = elapsed + dt
    /\ LET c == ReadClassify(Head(rx), cur.node)
       IN  CASE c.kind = "abort" -> ReadDone(<<None, Some(c.code)>>, "SDO abort", c.code)
             [] c.kind = "data"  -> ReadDone(<<Some(c.data), None>>, "", 0)
             [] OTHER            -> UNCHANGED << pc, outer, ret >>
    /\ UNCHANGED << svc, conn, nsent, pending, noise, cur, out >>

\* bus.recv() returns None: nothing arrived in the time that was left.
ReadRecvNone ==
    /\ pc = "read"
    /\ elapsed < cur.timeout
    /\ rx = << >>
    /\ elapsed' = cur.timeout
    /\ UNCHANGED << svc, conn, nsent, pending, rx, noise, pc, cur, seen, out, outer, ret >>

\* ReadRecvError that gives up the read when bus.recv() raises.
ReadRecvErrorEndsRead(dt) ==
    /\ pc = "read"
    /\ elapsed < cur.timeout
    /\ dt >= 1
    /\ elapsed + dt <= cur.timeout
    /\ elapsed' = elapsed + dt
    /\ ReadDone(<<None, None>>, "SDO recv error", 0)
    /\ UNCHANGED << svc, conn, nsent, pending, rx, noise, cur, seen, out >>

\* bus.recv() raises after dt ticks: logged at debug level, the loop goes on.
ReadRecvError(dt) ==
    /\ pc = "read"
    /\ elapsed < cur.timeout
    /\ dt >= 1
    /\ elapsed + dt <= cur.timeout
    /\ elapsed' = elapsed + dt
    /\ UNCHANGED << svc, conn, nsent, pending, rx, noise, pc, cur, seen, out, outer, ret >>

\* ReadTimeout that starts the wait over instead of returning.
ReadTimeoutRestarts ==
    /\ pc = "read"
    /\ elapsed >= cur.timeout
    /\ elapsed' = 0
    /\ seen' = << >>
    /\ UNCHANGED << svc, conn, nsent, pending, rx, noise, pc, cur, out, outer, ret >>

\* The while condition fails: "SDO timeout", return (None, None).
ReadTimeout ==
    /\ pc = "read"
    /\ elapsed >= cur.timeout
    /\ ReadDone(<<None, None>>, "SDO timeout", 0)
    /\ UNCHANGED << svc, conn, nsent, pending, rx, noise, cur, elapsed, seen, out >>

\* ------------------------------------------------------------ write_sdo
\* cmd_map.get(len(data), 0x23)
CmdFor(len) ==
    CASE len = 1 -> 47
      [] len = 2 -> 43
      [] len = 3 -> 39
      [] len = 4 -> 35
      [] OTHER   -> CMD_DEFAULT

\* data + bytes(4 - len(data))
\* Padded with the zero bytes in front of the payload.
PaddedLeft(data) == Zeros(4 - Len(data)) \o data

Padded(data) == data \o Zeros(4 - Len(data))

DownloadRequest(index, subindex, data) ==
    << CmdFor(Len(data)), Lo(index), Hi(index), subindex >> \o Padded(data)

\* WriteClassify without the comparison of the echoed index and sub-index.
WriteClassifyNoEcho(f, node_id, index, subindex) ==
    IF f.id # SDO_TX_BASE + node_id THEN [kind |-> "continue"]
    ELSE IF Len(f.data) < 1 THEN [kind |-> "continue"]
    ELSE IF f.data[1] = CMD_DL_OK
         THEN IF Len(f.data) < 4 THEN [kind |-> "raise"] ELSE [kind |-> "success"]
    ELSE IF f.data[1] = CMD_ABORT
         THEN [kind |-> "abort", code |-> FromBytesLittle(Slice(f.data, 4, 8))]
    ELSE [kind |-> "continue"]

\* WriteClassify that logs an abort and goes on polling.
WriteClassifyAbortContinues(f, node_id, index, subindex) ==
    IF f.id # SDO_TX_BASE + node_id THEN [kind |-> "continue"]
    ELSE IF Len(f.data) < 1 THEN [kind |-> "continue"]
    ELSE IF f.data[1] = CMD_DL_OK
         THEN IF Len(f.data) < 4 THEN [kind |-> "raise"]
              ELSE IF f.data[2] + 256 * f.data[3] = index /\ f.data[4] = subindex
                   THEN [kind |-> "success"]
                   ELSE [kind |-> "continue"]
    ELSE [kind |-> "continue"]

\* WriteClassify that takes an abort for the end of a successful download.
WriteClassifyAbortSucceeds(f, node_id, index, subindex) ==
    IF f.id # SDO_TX_BASE + node_id THEN [kind |-> "continue"]
    ELSE IF Len(f.data) < 1 THEN [kind |-> "continue"]
    ELSE IF f.data[1] = CMD_DL_OK
         THEN IF Len(f.data) < 4 THEN [kind |-> "raise"]
              ELSE IF f.data[2] + 256 * f.data[3] = index /\ f.data[4] = subindex
                   THEN [kind |-> "success"]
                   ELSE [kind |-> "continue"]
    ELSE IF f.data[1] = CMD_ABORT THEN [kind |-> "success"]
    ELSE [kind |-> "continue"]

\* What one loop iteration of write_sdo does with a received frame f.
\* "raise" is the IndexError of reading the echo of a download response
\* shorter than 4 bytes, which the outer except turns into return False.
WriteClassify(f, node_id, index, subindex) ==
    IF f.id # SDO_TX_BASE + node_id THEN [kind |-> "continue"]
    ELSE IF Len(f.data) < 1 THEN [kind |-> "continue"]
    ELSE IF f.data[1] = CMD_DL_OK
         THEN IF Len(f.data) < 4 THEN [kind |-> "raise"]
              ELSE IF f.data[2] + 256 * f.data[3] = index /\ f.data[4] = subindex
                   THEN [kind |-> "success"]
                   ELSE [kind |-> "continue"]
    ELSE IF f.data[1] = CMD_ABORT
         THEN [kind |-> "abort", code |-> FromBytesLittle(Slice(f.data, 4, 8))]
    ELSE [kind |-> "continue"]

\* write_sdo returns ok to its caller.
WriteDone(ok, log, code) ==
    /\ ret' = Ret("write", ok, log, code)
    /\ pc' = "idle"

\* write_sdo up to and including bus.send().
WriteStart(node_id, index, subindex, data, timeout, sendOk) ==
    /\ cur' = [op |-> "write", node |-> node_id, index |-> index, subindex |-> subindex,
               data |-> data, timeout |-> timeout,
               req |-> IF bus # 0 /\ Len(data) <= MAX_EXPEDITED /\ sendOk
                       THEN nsent + 1 ELSE -1]
    /\ elapsed' = 0
    /\ seen' = << >>
    /\ IF bus = 0
       THEN /\ WriteDone(FALSE, "CAN bus not connected", 0)
            /\ out' = << >>
            /\ UNCHANGED << nsent, pending >>
       ELSE IF Len(data) > MAX_EXPEDITED
       THEN /\ WriteDone(FALSE, "Only expedited SDO download (1-4 bytes) supported", 0)
            /\ out' = << >>
            /\ UNCHANGED << nsent, pending >>
       ELSE IF ~sendOk
       THEN /\ WriteDone(FALSE, "SDO write error", 0)
            /\ out' = << >>
            /\ UNCHANGED << nsent, pending >>
       ELSE /\ Send(SDO_RX_BASE + node_id, DownloadRequest(index, subindex, data), << >>)
            /\ pc' = "write"
            /\ ret' = NoRet
    /\ UNCHANGED << svc, conn, rx, noise, outer >>

WriteSdo(node_id, index, subindex, data, timeout, sendOk) ==
    /\ pc = "idle"
    /\ (bus # 0 /\ sendOk /\ Len(data) <= MAX_EXPEDITED) => nsent < MaxSent
    /\ WriteStart(node_id, index, subindex, data, timeout, sendOk)

\* One iteration of the while loop in which bus.recv(timeout=0.1) returns a
\* frame, dt ticks after it was called.
WriteRecvFrame(dt) ==
    /\ pc = "write"
    /\ elapsed < cur.timeout
    /\ rx # << >>
    /\ dt <= RECV_SLICE
    /\ rx' = Tail(rx)
    /\ seen' = Append(seen, Head(rx))
    /\ elapsed' = elapsed + dt
    /\ LET c == WriteClassify(Head(rx), cur.node, cur.index, cur.subindex)
       IN  CASE c.kind = "success" -> WriteDone(TRUE, "SDO write successful", 0)
             [] c.kind = "abort"   -> WriteDone(FALSE, "SDO write abort", c.code)
             [] c.kind = "raise"   -> WriteDone(FALSE, "SDO write error", 0)
             [] OTHER              -> UNCHANGED << pc, ret >>
    /\ UNCHANGED << svc, conn, nsent, pending, noise, cur, out, outer >>

\* bus.recv(timeout=0.1) returns None after its slice.
WriteRecvNone ==
    /\ pc = "write"
    /\ elapsed < cur.timeout
    /\ rx = << >>
    /\ elapsed' = elapsed + RECV_SLICE
    /\ UNCHANGED << svc, conn, nsent, pending, rx, noise, pc, cur, seen, out, outer, ret >>

\* bus.recv() raises: the outer except logs "SDO write error", return False.
WriteRecvError ==
    /\ pc = "write"
    /\ elapsed < cur.timeout
    /\ WriteDone(FALSE, "SDO write error", 0)
    /\ UNCHANGED << svc, conn, nsent, pending, rx, noise, cur, elapsed, seen, out, outer >>

\* The while condition fails: "SDO write timeout", return False.
WriteTimeout ==
    /\ pc = "write"
    /\ elapsed >= cur.timeout
    /\ WriteDone(FALSE, "SDO write timeout", 0)
    /\ UNCHANGED << svc, conn, nsent, pending, rx, noise, cur, elapsed, seen, out, outer >>

\* ------------------------------------------------------------ scan_network
\* Entry to scan_network(node_range): active_nodes = [] and the for loop over
\* the range is about to start.
ScanCall(node_range) ==
    /\ pc' = "scan"
    /\ outer' = [kind |-> "scan", node |-> 0, todo |-> node_range, active |-> << >>,
                 done |-> << >>]
    /\ out' = << >>
    /\ ret' = NoRet

\* A caller starts scan_network, like read_all_parameters, on a quiet bus.
ScanNetwork(node_range) ==
    /\ pc = "idle"
    /\ bus # 0 => (nsent < MaxSent /\ pending = {} /\ rx = << >>)
    /\ ScanCall(node_range)
    /\ UNCHANGED << svc, conn, nsent, pending, rx, noise, cur, elapsed, seen >>

\* The head of the for loop: the next read_sdo(node_id, 0x1000, 0x00,
\* timeout=0.1), or the return of active_nodes when the range is exhausted.
ScanStep(sendOk) ==
    /\ pc = "scan"
    /\ IF outer.todo = << >>
       THEN /\ ret' = Ret("scan", outer.active, "Scan complete", 0)
            /\ pc' = "idle"
            /\ outer' = [outer EXCEPT !.kind = "none"]
            /\ UNCHANGED << svc, conn, nsent, pending, rx, noise, cur, elapsed, seen, out >>
       ELSE ReadStart(Head(outer.todo), SCAN_INDEX, 0, SCAN_TIMEOUT, sendOk)

\* ------------------------------------------ read_parameter, read_all_parameters
ReadParameter(node_id, param_name) ==
    /\ pc = "idle"
    /\ bus # 0 => nsent < MaxSent
    /\ pc' = "param"
    /\ outer' = [kind |-> "param", node |-> node_id, todo |-> << param_name >>,
                 active |-> << >>, done |-> << >>]
    /\ out' = << >>
    /\ ret' = NoRet
    /\ UNCHANGED << svc, conn, nsent, pending, rx, noise, cur, elapsed, seen >>

\* The body of read_parameter up to the return of read_sdo's send.
ParamStart(node_id, param_name, sendOk) ==
    LET sdo == Lookup(param_name)
    IN  IF IsNone(sdo)
        THEN /\ ret' = Ret("param", None, "Unknown parameter", 0)
             /\ pc' = "idle"
             /\ outer' = [outer EXCEPT !.kind = "none"]
             /\ UNCHANGED << svc, conn, nsent, pending, rx, noise, cur, elapsed, seen, out >>
        ELSE ReadStart(node_id, The(sdo).index, The(sdo).subindex, READ_TIMEOUT, sendOk)

ParamStep(sendOk) ==
    /\ pc = "param"
    /\ ParamStart(outer.node, Head(outer.todo), sendOk)

\* Entry to read_all_parameters(node_id): results = {} and the for loop over
\* SDO_MAP.keys() is about to start.
ReadAllCall(node_id) ==
    /\ pc' = "all"
    /\ outer' = [kind |-> "all", node |-> node_id, todo |-> RegistryNames,
                 active |-> << >>, done |-> << >>]
    /\ out' = << >>
    /\ ret' = NoRet

\* A caller starts read_all_parameters on a quiet bus: no request of an earlier
\* call is unanswered and nothing waits in the receive queue.
ReadAllParameters(node_id) ==
    /\ pc = "idle"
    /\ bus # 0 => (nsent < MaxSent /\ pending = {} /\ rx = << >>)
    /\ ReadAllCall(node_id)
    /\ UNCHANGED << svc, conn, nsent, pending, rx, noise, cur, elapsed, seen >>

\* The head of the for loop over SDO_MAP.keys(): the next read_parameter, or
\* the return of the result when every name has been tried.
AllStep(sendOk) ==
    /\ pc = "all"
    /\ IF outer.todo = << >>
       THEN /\ ret' = Ret("all", outer.active, "", 0)
            /\ pc' = "idle"
            /\ outer' = [outer EXCEPT !.kind = "none"]
            /\ UNCHANGED << svc, conn, nsent, pending, rx, noise, cur, elapsed, seen, out >>
       ELSE ParamStart(outer.node, Head(outer.todo), sendOk)

\* ------------------------------------------------------------ specifications
Respond ==
    \E q \in pending, cmd \in {67, 79, CMD_DL_OK, CMD_ABORT}, p \in Payloads :
        NodeRespond(q, cmd, p)

Lifecycle ==
    \/ \E ok \in BOOLEAN : Connect(ok)
    \/ Disconnect

ReadOps ==
    \/ \E n \in Nodes, o \in Objs, t \in Timeouts, sendOk \in BOOLEAN :
          ReadSdo(n, o[1], o[2], t, sendOk)
    \/ \E dt \in 0 .. 2 : ReadRecvFrame(dt)
    \/ ReadRecvNone
    \/ \E dt \in 1 .. 2 : ReadRecvError(dt)
    \/ ReadTimeout
    \/ \E r \in ScanRanges : ScanNetwork(r)
    \/ \E sendOk \in BOOLEAN : ScanStep(sendOk)

WriteOps ==
    \/ \E n \in Nodes, o \in Objs, d \in WriteData, t \in Timeouts, sendOk \in BOOLEAN :
          WriteSdo(n, o[1], o[2], d, t, sendOk)
    \/ \E dt \in 0 .. 1 : WriteRecvFrame(dt)
    \/ WriteRecvNone
    \/ WriteRecvError
    \/ WriteTimeout

\* The state after construction and one successful connect().
InitConnected ==
    /\ bus = 1
    /\ acquired = 1
    /\ shut = [h \in {1} |-> 0]
    /\ nsent = 0
    /\ pending = {}
    /\ rx = << >>
    /\ noise = 0
    /\ pc = "idle"
    /\ cur = NoCall
    /\ elapsed = 0
    /\ seen = << >>
    /\ out = << >>
    /\ outer = NoOuter
    /\ ret = NoRet
    /\ svc = NoService

\* The state after connect() and a read of 0x1000:00 on node 1 (the probe of
\* scan_network) that ended in a timeout: its request, number 0, is on the
\* bus and node 1 has not answered it yet.
InitPending ==
    /\ bus = 1
    /\ acquired = 1
    /\ shut = [h \in {1} |-> 0]
    /\ nsent = 0
    /\ pending = {Request(0, SDO_RX_BASE + 1, UploadRequest(SCAN_INDEX, 0))}
    /\ rx = << >>
    /\ noise = 0
    /\ pc = "idle"
    /\ cur = NoCall
    /\ elapsed = 0
    /\ seen = << >>
    /\ out = << >>
    /\ outer = NoOuter
    /\ ret = NoRet
    /\ svc = NoService

\* The whole client on a live bus.
Next == Lifecycle \/ Respond \/ (\E f \in ForeignFrames : Inject(f)) \/ ReadOps \/ WriteOps
Spec == Init /\ [][Next]_vars

\* A connected client whose caller reads and scans.
NextRead == Respond \/ (\E f \in ReadForeign : Inject(f)) \/ ReadOps
SpecRead == InitConnected /\ [][NextRead]_vars

\* The same caller, after a read that timed out.
NextStale ==
    \/ Respond
    \/ \E f \in ReadForeign : Inject(f)
    \/ \E n \in Nodes, o \in Objs, t \in Timeouts, sendOk \in BOOLEAN :
          ReadSdo(n, o[1], o[2], t, sendOk)
    \/ \E dt \in 0 .. 2 : ReadRecvFrame(dt)
    \/ ReadRecvNone
    \/ \E dt \in 1 .. 2 : ReadRecvError(dt)
    \/ ReadTimeout
SpecStale == InitPending /\ [][NextStale]_vars

\* A connected client whose caller writes.
NextWrite == Respond \/ (\E f \in WriteForeign : Inject(f)) \/ WriteOps
SpecWrite == InitConnected /\ [][NextWrite]_vars

\* A connected client whose caller reads all parameters of a node.
AllOps ==
    \/ \E n \in Nodes : ReadAllParameters(n)
    \/ \E sendOk \in BOOLEAN : AllStep(sendOk)
    \/ \E dt \in {0, 2} : ReadRecvFrame(dt)
    \/ ReadRecvNone
    \/ ReadTimeout
NextAll == Respond \/ (\E f \in ParamForeign : Inject(f)) \/ AllOps
SpecAll == InitConnected /\ [][NextAll]_vars

\* A connected client whose caller reads single parameters by name.
NamedOps ==
    \/ \E n \in Nodes, name \in ParamNames : ReadParameter(n, name)
    \/ \E sendOk \in BOOLEAN : ParamStep(sendOk)
    \/ \E dt \in {0, 2} : ReadRecvFrame(dt)
    \/ ReadRecvNone
    \/ ReadTimeout
NextNamed == Respond \/ (\E f \in ParamForeign : Inject(f)) \/ NamedOps
SpecNamed == InitConnected /\ [][NextNamed]_vars

\* Frames that end neither a read nor a write of node 1: another node's
\* response, an empty frame of node 1, a download response of node 1 for
\* another object.
StreamFrames ==
    { Frame(SDO_TX_BASE + 2, << 67, 0, 16, 0, 9, 0, 0, 0 >>, -1),
      Frame(SDO_TX_BASE + 1, << >>, -1),
      Frame(SDO_TX_BASE + 1, << 96, 24, 16, 2, 0, 0, 0, 0 >>, -1) }

\* The bus never runs dry: whenever the receive queue is empty another frame
\* may arrive.
Stream(f) ==
    /\ bus # 0
    /\ rx = << >>
    /\ rx' = << f >>
    /\ UNCHANGED << svc, conn, nsent, pending, noise, pc, cur, elapsed, seen, out, outer, ret >>

\* The steps of the polling loops. time.time() has advanced when recv()
\* returns: every receive takes at least one tick.
Poll ==
    \/ \E dt \in 1 .. 2 : ReadRecvFrame(dt)
    \/ ReadRecvNone
    \/ \E dt \in 1 .. 2 : ReadRecvError(dt)
    \/ ReadTimeout
    \/ WriteRecvFrame(RECV_SLICE)
    \/ WriteRecvNone
    \/ WriteRecvError
    \/ WriteTimeout

\* Reads and writes on a bus with endless traffic. The calling thread is never
\* suspended for good, and recv() returns within the timeout it was given: the
\* polling loop keeps taking steps.
NextLive ==
    \/ Respond
    \/ \E f \in StreamFrames : Stream(f)
    \/ \E n \in Nodes, o \in Objs, t \in Timeouts, sendOk \in BOOLEAN :
          ReadSdo(n, o[1], o[2], t, sendOk)
    \/ \E n \in Nodes, o \in Objs, t \in Timeouts, sendOk \in BOOLEAN :
          WriteSdo(n, o[1], o[2], << 7 >>, t, sendOk)
    \/ Poll
SpecLive == InitConnected /\ [][NextLive]_vars /\ WF_vars(Poll)

\* One node, one payload, and two frames that answer nothing: a caller that
\* reads, writes and scans.
OnceForeign ==
    { Frame(SDO_TX_BASE + 2, << 67, 0, 16, 0, 9, 0, 0, 0 >>, -1),
      Frame(SDO_TX_BASE + 1, << 96, 24, 16, 2, 0, 0, 0, 0 >>, -1) }
NextOnce ==
    \/ \E q \in pending : \E cmd \in ResponseCmds(q) : NodeRespond(q, cmd, << 232, 3, 2, 6 >>)
    \/ \E f \in OnceForeign : Inject(f)
    \/ \E o \in Objs, sendOk \in BOOLEAN : ReadSdo(1, o[1], o[2], 2, sendOk)
    \/ \E sendOk \in BOOLEAN : WriteSdo(1, SCAN_INDEX, 0, << 7 >>, 2, sendOk)
    \/ \E r \in ScanRanges : ScanNetwork(r)
    \/ \E sendOk \in BOOLEAN : ScanStep(sendOk)
    \/ \E dt \in {0, 1} : ReadRecvFrame(dt)
    \/ ReadRecvNone
    \/ ReadTimeout
    \/ \E dt \in {0, 1} : WriteRecvFrame(dt)
    \/ WriteRecvNone
    \/ WriteTimeout
SpecOnce == InitConnected /\ [][NextOnce]_vars

\* The node addresses of CANopen, and the two at the ends of the range.
NodeIds == MIN_NODE .. MAX_NODE
EdgeNodes == {MIN_NODE, MAX_NODE}

\* Requests of another master on the bus, to the nodes at the ends of the
\* range: an upload request, and a download request whose first byte is that
\* of an upload response.
RequestFrames ==
    { Frame(SDO_RX_BASE + a, d, -1) :
        a \in EdgeNodes, d \in { << 64, 0, 16, 0, 0, 0, 0, 0 >>, << 67, 0, 16, 0, 1, 0, 0, 0 >> } }

\* A client that reads the nodes at the ends of the range while another
\* master's requests are on the bus.
NextIds ==
    \/ \E q \in pending : \E cmd \in ResponseCmds(q) : NodeRespond(q, cmd, << 232, 3, 2, 6 >>)
    \/ \E f \in RequestFrames : Inject(f)
    \/ \E n \in EdgeNodes, sendOk \in BOOLEAN : ReadSdo(n, SCAN_INDEX, 0, 2, sendOk)
    \/ \E dt \in {0, 1} : ReadRecvFrame(dt)
    \/ ReadRecvNone
    \/ ReadTimeout
SpecIds == InitConnected /\ [][NextIds]_vars

\* A caller that reads and writes the nodes at the ends of the range on a
\* silent bus.
NextFrames ==
    \/ \E n \in EdgeNodes, o \in Objs, sendOk \in BOOLEAN : ReadSdo(n, o[1], o[2], 2, sendOk)
    \/ \E n \in EdgeNodes, o \in Objs, d \in WriteData, sendOk \in BOOLEAN :
          WriteSdo(n, o[1], o[2], d, 2, sendOk)
    \/ ReadRecvNone
    \/ ReadTimeout
    \/ WriteRecvNone
    \/ WriteTimeout
SpecFrames == InitConnected /\ [][NextFrames]_vars

\* A caller that connects and disconnects at will, and reads, writes and
\* scans only while the client is not connected.
NextLife ==
    \/ Lifecycle
    \/ \E n \in Nodes, o \in Objs, t \in Timeouts, sendOk \in BOOLEAN :
          bus = 0 /\ ReadSdo(n, o[1], o[2], t, sendOk)
    \/ \E n \in Nodes, o \in Objs, d \in WriteData, t \in Timeouts, sendOk \in BOOLEAN :
          bus = 0 /\ WriteSdo(n, o[1], o[2], d, t, sendOk)
    \/ \E r \in ScanRanges : bus = 0 /\ ScanNetwork(r)
    \/ \E sendOk \in BOOLEAN : ScanStep(sendOk)
SpecLife == Init /\ [][NextLife]_vars

\* ------------------------------------------------------------ claims
LastSeen == seen[Len(seen)]
ResponseId(node_id) == SDO_TX_BASE + node_id
Echo(f) == << f.data[2], f.data[3], f.data[4] >>
CurEcho == << Lo(cur.index), Hi(cur.index), cur.subindex >>
ReadTimeoutValue == << None, None >>
WriteTimeoutValue == FALSE

\* C1: a read on a connected client returns one of three shapes no two of
\* which coincide: Data = (bytes 4..7 of the frame that ended the call, None),
\* Abort = (None, code) with code the little-endian 32-bit value of bytes 4..7
\* of the abort frame that ended the call, or Timeout = (None, None).
C1_ReadOutcome ==
    ret.op = "read" =>
        LET data  == ret.value[1]
            abort == ret.value[2]
        IN  \/ /\ ~IsNone(data) /\ IsNone(abort)
               /\ seen # << >>
               /\ LastSeen.data[1] \in UploadResponses
               /\ The(data) = Slice(LastSeen.data, 4, 8)
            \/ /\ IsNone(data) /\ ~IsNone(abort)
               /\ seen # << >>
               /\ LastSeen.data[1] = CMD_ABORT
               /\ Len(LastSeen.data) = 8
               /\ The(abort) = LastSeen.data[5] + 256 * LastSeen.data[6]
                                 + 65536 * LastSeen.data[7] + 16777216 * LastSeen.data[8]
            \/ /\ ret.value = ReadTimeoutValue
               /\ ret.log \in {"SDO timeout", "Failed to send SDO request"}

\* C1 witness: a read has returned Abort carrying code 0.
C1_Witness ==
    /\ ret.op = "read"
    /\ ret.value = << None, Some(0) >>
    /\ LastSeen.re = cur.req

\* C2 (as claimed): a read never returns Data or Abort taken from the answer
\* to an earlier request for a different object.
C2_NoStaleResponse ==
    (ret.op = "read" /\ ret.value # ReadTimeoutValue) =>
        ~ (/\ LastSeen.re >= 0
           /\ LastSeen.re < cur.req
           /\ Echo(LastSeen) # CurEcho)

\* C3: a read on node n returns Data or Abort only on a frame whose identity
\* is 0x580+n; when every frame it received had another identity, the call
\* polled until its deadline and returned Timeout.
C3_ForeignIdentityDropped ==
    ret.op = "read" =>
        /\ ret.value # ReadTimeoutValue =>
              seen # << >> /\ LastSeen.id = ResponseId(cur.node)
        /\ (cur.req # -1 /\ \A i \in 1 .. Len(seen) : seen[i].id # ResponseId(cur.node)) =>
              /\ ret.value = ReadTimeoutValue
              /\ ret.log = "SDO timeout"
              /\ elapsed >= cur.timeout

\* C3 witness: a read timed out after receiving a well-formed upload response
\* that carried another node's identity.
C3_Witness ==
    /\ ret.op = "read"
    /\ ret.log = "SDO timeout"
    /\ \E i \in 1 .. Len(seen) :
          /\ seen[i].id = ResponseId(cur.node + 1)
          /\ seen[i].data[1] \in UploadResponses
IsDownloadOk(f, node_id) ==
    f.id = ResponseId(node_id) /\ Len(f.data) >= 4 /\ f.data[1] = CMD_DL_OK
IsAbortFrame(f, node_id) ==
    f.id = ResponseId(node_id) /\ Len(f.data) >= 1 /\ f.data[1] = CMD_ABORT
EchoMatches(f) ==
    f.data[2] + 256 * f.data[3] = cur.index /\ f.data[4] = cur.subindex

\* C4: write returns True only on a frame from 0x580+node, received before
\* the deadline, with leading byte 0x60 and the request's index and sub-index;
\* when every download response it received echoed another object (and the
\* node sent no abort and no receive failed) it polled on to its deadline and
\* returned the timeout result.
C4_SuccessNeedsMatchingEcho ==
    ret.op = "write" =>
        /\ ret.value = TRUE =>
              /\ seen # << >>
              /\ IsDownloadOk(LastSeen, cur.node)
              /\ EchoMatches(LastSeen)
              /\ elapsed <= cur.timeout
        /\ ( /\ cur.req # -1
             /\ ret.log # "SDO write error"
             /\ \A i \in 1 .. Len(seen) :
                   /\ ~IsAbortFrame(seen[i], cur.node)
                   /\ IsDownloadOk(seen[i], cur.node) => ~EchoMatches(seen[i]) )
           => /\ ret.value = FALSE
              /\ ret.log = "SDO write timeout"
              /\ elapsed >= cur.timeout

\* C4 witness: a write timed out after receiving a download response from
\* its node that echoed another object.
C4_Witness ==
    /\ ret.op = "write"
    /\ ret.log = "SDO write timeout"
    /\ \E i \in 1 .. Len(seen) :
          IsDownloadOk(seen[i], cur.node) /\ ~EchoMatches(seen[i])

\* C5 (as claimed): the value write returns for an abort differs from the
\* value it returns for a timeout.
C5_AbortDistinctFromTimeout ==
    (ret.op = "write" /\ ret.log = "SDO write abort") => ret.value # WriteTimeoutValue

\* C5 (amended): write returns a boolean, True exactly when it ended on the
\* matching download response; an abort returns False like a timeout, and its
\* code (bytes 4..7 of the abort frame, little-endian) is only logged.
C5_WriteReturnsBool ==
    ret.op = "write" =>
        /\ ret.value \in BOOLEAN
        /\ ret.value = TRUE <=> ret.log = "SDO write successful"
        /\ ret.value = TRUE => (seen # << >> /\ IsDownloadOk(LastSeen, cur.node))
        /\ ret.log \in { "SDO write successful", "SDO write abort", "SDO write timeout",
                         "SDO write error",
                         "Only expedited SDO download (1-4 bytes) supported" }
        /\ ret.log = "SDO write abort" =>
              /\ ret.value = FALSE
              /\ IsAbortFrame(LastSeen, cur.node)
              /\ Len(LastSeen.data) = 8 =>
                    ret.code = LastSeen.data[5] + 256 * LastSeen.data[6]
                                 + 65536 * LastSeen.data[7] + 16777216 * LastSeen.data[8]

\* C5 witness: a write ended on the node's abort of its own request, with a
\* code other than 0, and returned False.
C5_Witness ==
    /\ ret.op = "write"
    /\ ret.log = "SDO write abort"
    /\ ret.code # 0
    /\ LastSeen.re = cur.req
    /\ ret.value = FALSE

\* C6: the loop iteration of write in which recv returns a frame from
\* 0x580+node with leading byte 0x80 is the last one: the call returns in
\* that step, with the abort logged, and issues no further receive.
C6_AbortStopsPolling ==
    [][ ( /\ pc = "write"
          /\ rx # << >>
          /\ seen' = Append(seen, Head(rx))
          /\ IsAbortFrame(Head(rx), cur.node) )
        => ( /\ pc' = "idle"
             /\ ret'.op = "write"
             /\ ret'.log = "SDO write abort"
             /\ ret'.value = FALSE ) ]_vars

\* C6 witness: a write has returned on an abort while time remained before
\* its deadline and the matching download response was waiting in the queue.
C6_Witness ==
    /\ ret.op = "write"
    /\ ret.log = "SDO write abort"
    /\ elapsed < cur.timeout
    /\ rx # << >>
    /\ IsDownloadOk(Head(rx), cur.node)
    /\ EchoMatches(Head(rx))

\* C7 (as claimed): write puts a frame on the bus only for a payload of 1..4
\* bytes.
C7_SendsOnlyLength1To4 ==
    (cur.op = "write" /\ out # << >>) => Len(cur.data) \in 1 .. MAX_EXPEDITED

\* C8: read, write and scan called while the client is not connected (before
\* a successful connect, or after disconnect) fail: read returns (None, None)
\* and write False, each with the error "CAN bus not connected", scan finds no
\* node, every one of its probes failing in the same way; none of them sends a
\* frame.
C8_NotConnectedSendsNothing ==
    /\ nsent = 0
    /\ pending = {}
    /\ out = << >>
    /\ ret.op = "read" =>
          ret.value = ReadTimeoutValue /\ ret.log = "CAN bus not connected"
    /\ ret.op = "write" =>
          ret.value = FALSE /\ ret.log = "CAN bus not connected"
    /\ ret.op = "scan" =>
          ret.value = << >> /\ ~ret.raised

\* C8 witness: after a connect and a disconnect, a scan of two nodes has
\* returned.
C8_Witness ==
    /\ ret.op = "scan"
    /\ cur.op = "read"
    /\ cur.node = 2
    /\ bus = 0
    /\ acquired >= 1
    /\ shut[acquired] = 1

\* C9 (as claimed): whenever the client is in the disconnected state, every
\* transport a connect has acquired has been shut down exactly once.
C9_EveryHandleShutOnce ==
    bus = 0 => \A h \in 1 .. acquired : shut[h] = 1

\* C10: disconnect leaves the client disconnected; called when not connected
\* it shuts no transport down; called right after a disconnect it changes
\* nothing of the connection.
C10_DisconnectIdempotent ==
    [][ Disconnect =>
          /\ bus' = 0
          /\ acquired' = acquired
          /\ bus = 0 => shut' = shut
          /\ bus # 0 => shut' = [shut EXCEPT ![bus] = @ + 1]
          /\ ret.op = "disconnect" => UNCHANGED << bus, acquired, shut >> ]_vars

\* C10 witness: a disconnect on a client that an earlier disconnect had left
\* not connected has returned, and the transport was shut down once.
C10_Witness ==
    /\ ret.op = "disconnect"
    /\ ret.log = ""
    /\ bus = 0
    /\ acquired >= 1
    /\ shut[acquired] = 1

\* C11 (as claimed): a connect whose can.Bus() raised returns False and
\* leaves the client not connected, whatever state it was called in.
C11_FailedConnectDisconnected ==
    (ret.op = "connect" /\ ret.value = FALSE) => bus = 0

\* C12 (as claimed): a scan ends by returning a list; when one of its probes
\* has returned, the probed address is the last of the active addresses if
\* the probe returned Data and is not among them otherwise.
C12_ScanListsDataAddresses ==
    /\ ret.op = "scan" => ~ret.raised
    /\ (pc = "scan" /\ ret.op = "read") =>
          IF IsNone(ret.value[1])
          THEN \A i \in 1 .. Len(outer.active) : outer.active[i] # cur.node
          ELSE /\ outer.active # << >>
               /\ outer.active[Len(outer.active)] = cur.node

\* The names of a sequence of records, in order.
Names(seq) == [i \in 1 .. Len(seq) |-> seq[i].name]

\* e records a read that returned Data which decode_value could decode.
ProducedValue(e) ==
    /\ ~IsNone(e.value[1])
    /\ IsNone(e.value[2])
    /\ ~IsNone(DecodeValue(The(e.value[1]), SDO_MAP[e.name].data_type))

RECURSIVE ProducedNames(_)
ProducedNames(done) ==
    IF done = << >> THEN << >>
    ELSE (IF ProducedValue(Head(done)) THEN << Head(done).name >> ELSE << >>)
            \o ProducedNames(Tail(done))

\* The request frames of the entries of done whose send succeeded, in order.
RECURSIVE RequestsOf(_, _)
RequestsOf(node_id, done) ==
    IF done = << >> THEN << >>
    ELSE (IF Head(done).sent
          THEN << [id |-> SDO_RX_BASE + node_id,
                   data |-> << CMD_UPLOAD, Lo(SDO_MAP[Head(done).name].index),
                               Hi(SDO_MAP[Head(done).name].index),
                               SDO_MAP[Head(done).name].subindex, 0, 0, 0, 0 >>] >>
          ELSE << >>)
            \o RequestsOf(node_id, Tail(done))

\* C13: the keys of the mapping read_all returns are exactly the names whose
\* read returned Data that decodes, a converted value of zero included; a name
\* whose read ended in Abort or Timeout is absent.
C13_ReadAllKeys ==
    ret.op = "all" =>
        /\ Names(ret.value) = ProducedNames(outer.done)
        /\ \A i \in 1 .. Len(outer.done) :
              (~IsNone(outer.done[i].value[2]) \/ outer.done[i].value = ReadTimeoutValue)
                 => \A j \in 1 .. Len(ret.value) : ret.value[j].name # outer.done[i].name
        /\ \A i \in 1 .. Len(outer.done) :
              ( /\ ~IsNone(outer.done[i].value[1])
                /\ Len(The(outer.done[i].value[1])) = 4 )
                 => \E j \in 1 .. Len(ret.value) : ret.value[j].name = outer.done[i].name

\* C13 witness: read_all returned a mapping that holds a name with converted
\* value zero, while another name's read was aborted and a third timed out.
C13_Witness ==
    /\ ret.op = "all"
    /\ \E j \in 1 .. Len(ret.value) : ret.value[j].value.num = 0
    /\ \E i \in 1 .. Len(outer.done) : ~IsNone(outer.done[i].value[2])
    /\ \E i \in 1 .. Len(outer.done) :
          outer.done[i].value = ReadTimeoutValue /\ outer.done[i].sent

\* C14: read_all tries every registry entry once, in declared order, whatever
\* the outcome of the entries before it, and its requests are on the bus in
\* that order.
C14_ReadAllOrder ==
    /\ outer.kind = "all" => Names(outer.done) \o outer.todo = RegistryNames
    /\ outer.kind = "all" =>
          out = RequestsOf(outer.node, outer.done)
                   \o (IF pc = "read"
                       THEN RequestsOf(outer.node, << [name |-> Head(outer.todo), sent |-> TRUE] >>)
                       ELSE << >>)
    /\ ret.op = "all" =>
          /\ Names(outer.done) = RegistryNames
          /\ out = RequestsOf(outer.node, outer.done)
          /\ ~ret.raised

\* C14 witness: read_all returned after a first entry whose Data did not
\* decode, a second that was aborted and a third that timed out, with three
\* requests sent.
C14_Witness ==
    /\ ret.op = "all"
    /\ Len(out) = 3
    /\ ~IsNone(outer.done[1].value[1]) /\ ~ProducedValue(outer.done[1])
    /\ ~IsNone(outer.done[2].value[2])
    /\ outer.done[3].value = ReadTimeoutValue

\* C15 (as claimed): what read_named returns for a name that is not in the
\* registry differs from what it returns when the value is unavailable.
C15_UnknownDistinctFromUnavailable ==
    (ret.op = "param" /\ ret.log = "Unknown parameter") => ret.value # None

\* C15 (amended): read_named for a name that is not in the registry returns
\* None, the value it also returns when the value is unavailable, logs
\* "Unknown parameter" and sends no frame.
C15_UnknownReturnsNone ==
    (ret.op = "param" /\ outer.kind = "none" /\ outer.todo[1] \notin DOMAIN SDO_MAP) =>
        /\ ret.value = None
        /\ ret.log = "Unknown parameter"
        /\ out = << >>
        /\ outer.done = << >>

\* C15 witness: read_named of the unknown name has returned on a connected
\* client that had sent nothing.
C15_Witness ==
    /\ ret.op = "param"
    /\ outer.todo = << "bogus" >>
    /\ ret.log = "Unknown parameter"
    /\ bus # 0
    /\ nsent = 0

\* f has fewer bytes than the fields op inspects in it.
TooShort(op, f) ==
    IF op = "read" THEN Len(f.data) < 8
    ELSE \/ Len(f.data) < 4
         \/ f.data[1] = CMD_ABORT /\ Len(f.data) < 8

\* f carries a leading byte op does not know.
Unrecognised(op, f) ==
    /\ Len(f.data) >= 1
    /\ IF op = "read" THEN f.data[1] \notin UploadResponses \cup {CMD_ABORT}
       ELSE f.data[1] \notin {CMD_DL_OK, CMD_ABORT}

\* C16 (as claimed): the iteration of read or write that receives a frame
\* which is too short or carries an unrecognised leading byte does not end
\* the call: polling goes on.
C16_MalformedDiscarded ==
    [][ ( /\ pc \in {"read", "write"}
          /\ rx # << >>
          /\ seen' = Append(seen, Head(rx))
          /\ TooShort(cur.op, Head(rx)) \/ Unrecognised(cur.op, Head(rx)) )
        => pc' = pc ]_vars

\* C17: a read or write is never found polling after its timeout has elapsed,
\* and every read and write that polls returns, even on a bus that never
\* stops delivering frames which end neither.
C17_CallsTerminate ==
    /\ [](pc \in {"read", "write"} => elapsed <= cur.timeout)
    /\ (pc \in {"read", "write"}) ~> (pc = "idle" /\ ret.op = cur.op)

\* C17 witness: a read returned at its deadline after a received frame in
\* every tick, none of them an answer, with the next frame already waiting.
C17_Witness ==
    /\ ret.op = "read"
    /\ ret.log = "SDO timeout"
    /\ Len(seen) = cur.timeout
    /\ \A i \in 1 .. Len(seen) : seen[i].re = -1
    /\ rx # << >>

\* The probes of a scan: one upload request of 0x1000:00 per address of done
\* whose send succeeded, in order.
RECURSIVE ProbesOf(_)
ProbesOf(done) ==
    IF done = << >> THEN << >>
    ELSE (IF Head(done).sent
          THEN << [id |-> SDO_RX_BASE + Head(done).name,
                   data |-> << CMD_UPLOAD, 0, 16, 0, 0, 0, 0, 0 >>] >>
          ELSE << >>)
            \o ProbesOf(Tail(done))

C19_IdentitiesDisjoint ==
    /\ \A a \in NodeIds, b \in NodeIds : SDO_RX_BASE + a # SDO_TX_BASE + b
    /\ (ret.op = "read" /\ ret.value # ReadTimeoutValue) =>
          \A a \in NodeIds : LastSeen.id # SDO_RX_BASE + a
    /\ ( /\ ret.op = "read"
         /\ cur.req # -1
         /\ \A i \in 1 .. Len(seen) : \E a \in NodeIds : seen[i].id = SDO_RX_BASE + a )
          => ret.value = ReadTimeoutValue

\* C19 witness: a read of node 127 timed out after it had received another
\* master's request to node 1 whose data looks like an upload response.
C19_Witness ==
    /\ ret.op = "read"
    /\ cur.node = MAX_NODE
    /\ ret.log = "SDO timeout"
    /\ \E i \in 1 .. Len(seen) :
          /\ seen[i].id = SDO_RX_BASE + MIN_NODE
          /\ seen[i].data[1] \in UploadResponses

\* The command byte of an expedited download of len bytes.
DownloadCmd(len) ==
    CASE len = 1 -> 47
      [] len = 2 -> 43
      [] len = 3 -> 39
      [] len = 4 -> 35

\* C20: the frame a read sends is [0x40, index low, index high, sub-index,
\* 0, 0, 0, 0] to 0x600+node; the frame a write of 1..4 bytes sends is
\* [cmd, index low, index high, sub-index, d0..d3] to 0x600+node, cmd being
\* 0x2F, 0x2B, 0x27, 0x23 for 1, 2, 3, 4 bytes and the payload followed by
\* zero bytes up to 4.
C20_RequestsBitExact ==
    /\ (cur.op = "read" /\ outer.kind = "none" /\ ret.op # "scan" /\ cur.req # -1) =>
          out = << [id |-> 1536 + cur.node,
                    data |-> << 64, cur.index % 256, cur.index \div 256, cur.subindex,
                                0, 0, 0, 0 >>] >>
    /\ (cur.op = "write" /\ cur.req # -1 /\ Len(cur.data) \in 1 .. 4) =>
          out = << [id |-> 1536 + cur.node,
                    data |-> << DownloadCmd(Len(cur.data)), cur.index % 256,
                                cur.index \div 256, cur.subindex >>
                             \o cur.data
                             \o [i \in 1 .. 4 - Len(cur.data) |-> 0]] >>

\* C20 witness: a write of the two bytes 07 08 to 0x6081:00 of node 127 has
\* sent 2B 81 60 00 07 08 00 00 to 0x67F.
C20_Witness ==
    /\ cur.op = "write"
    /\ cur.data = << 7, 8 >>
    /\ out = << [id |-> 1663, data |-> << 43, 129, 96, 0, 7, 8, 0, 0 >>] >>

\* ================================================================ decode
\* The bytes a node sends for the integer v in a field of n bytes: little-endian
\* two's complement, what struct.pack('<b'/'<h'/'<i'/..., v) produces.
EncodeLittle(v, n) == [i \in 1 .. n |-> (v \div (256 ^ (i - 1))) % 256]

\* The field width of a data type in bytes.
WidthOf(data_type) ==
    CASE data_type \in { "UINT8", "INT8" }   -> 1
      [] data_type \in { "UINT16", "INT16" } -> 2
      [] OTHER                               -> 4

\* An expedited response carries the value in the four data bytes of the frame,
\* the unused ones zero (read_sdo hands msg.data[4:8] to decode_value).
FrameData(v, data_type) ==
    EncodeLittle(v, WidthOf(data_type)) \o Zeros(MAX_EXPEDITED - WidthOf(data_type))

\* The values decode_value is applied to: every value of the one-byte and
\* two-byte types, and for the four-byte types the values around each byte
\* boundary and both ends of the range (unsigned values from 2^31 on are beyond
\* the integers the model checker computes with and are left out).
EdgeValues32 ==
    { 0, 1, 127, 128, 255, 256, 32767, 32768, 65535, 65536, 8388607, 8388608,
      16777215, 16777216, 305419896, 2147483646, 2147483647 }

ValuesOf(data_type) ==
    CASE data_type = "UINT8"  -> 0 .. 255
      [] data_type = "INT8"   -> -128 .. 127
      [] data_type = "UINT16" -> 0 .. 65535
      [] data_type = "INT16"  -> -32768 .. 32767
      [] data_type = "UINT32" -> EdgeValues32
      [] data_type = "INT32"  -> EdgeValues32 \cup { -v : v \in EdgeValues32 }
                                   \cup { -2147483647 - 1 }

\* Type strings decode_value has no branch for.
UnknownTypes == { "FLOAT32", "UINT64", "int16" }

DecodeCall(data_type, v, raw) ==
    [op |-> "decode_value", data_type |-> data_type, v |-> v, data |-> raw]

InitDecode ==
    /\ bus = 0
    /\ acquired = 0
    /\ shut = [h \in {} |-> 0]
    /\ nsent = 0
    /\ pending = {}
    /\ rx = << >>
    /\ noise = 0
    /\ pc = "decode"
    /\ \/ \E data_type \in DataTypes : \E v \in ValuesOf(data_type) :
             cur = DecodeCall(data_type, v, FrameData(v, data_type))
       \/ \E data_type \in UnknownTypes : \E raw \in Payloads :
             cur = DecodeCall(data_type, 0, raw)
    /\ elapsed = 0
    /\ seen = << >>
    /\ out = << >>
    /\ outer = NoOuter
    /\ ret = NoRet
    /\ svc = NoService

\* decode_value(raw_data, data_type)
Decode ==
    /\ pc = "decode"
    /\ pc' = "idle"
    /\ ret' = Ret("decode_value", DecodeValue(cur.data, cur.data_type),
                  DecodeLog(cur.data, cur.data_type), 0)
    /\ UNCHANGED << svc, conn, nsent, pending, rx, noise, cur, elapsed, seen, out, outer >>

NextDecode == Decode
SpecDecode == InitDecode /\ [][NextDecode]_vars

MaxCycles  == 2

\* config['Battery']['capacity']
CAPACITY == 200

\* The D-Bus paths _update_dbus assigns to.
Paths ==
    { "/Dc/0/Voltage", "/Dc/0/Current", "/Dc/0/Power", "/Dc/0/Temperature", "/Soc",
      "/ConsumedAmphours", "/History/ChargeCycles", "/History/TotalAhDrawn" }

\* BatteryMonitor.__init__ and setup_dbus: every value path starts as None,
\* last_update as 0; dbus is whether self.dbus_service was created.
Battery(node_id, dbus) ==
    [node_id |-> node_id, dbus |-> dbus, published |-> [p \in Paths |-> None],
     last_update |-> 0]

\* 'name' in bms_data and bms_data['name'] on the dictionary read_all_parameters
\* returned (the sequence of its items in insertion order).
Has(bms_data, name) == \E i \in 1 .. Len(bms_data) : bms_data[i].name = name
Get(bms_data, name) ==
    bms_data[CHOOSE i \in 1 .. Len(bms_data) : bms_data[i].name = name].value

Assignment(path, value) == [path |-> path, value |-> value]

\* The assignments self.dbus_service[path] = value that _update_dbus makes for
\* bms_data, in the order of the code. Values are exact quotients.
Assignments(bms_data) ==
    (IF Has(bms_data, "voltage")
     THEN << Assignment("/Dc/0/Voltage", Get(bms_data, "voltage")) >>
     ELSE << >>)
    \o (IF Has(bms_data, "current")
        THEN << Assignment("/Dc/0/Current", Get(bms_data, "current")) >>
             \o (IF Has(bms_data, "voltage")
                 THEN << Assignment("/Dc/0/Power",
                            [num |-> Get(bms_data, "voltage").num * Get(bms_data, "current").num,
                             den |-> Get(bms_data, "voltage").den * Get(bms_data, "current").den]) >>
                 ELSE << >>)
        ELSE << >>)
    \o (IF Has(bms_data, "temperature")
        THEN << Assignment("/Dc/0/Temperature", Get(bms_data, "temperature")) >>
        ELSE << >>)
    \o (IF Has(bms_data, "soc")
        THEN << Assignment("/Soc", Get(bms_data, "soc")),
                Assignment("/ConsumedAmphours",
                    [num |-> CAPACITY * (100 * Get(bms_data, "soc").den - Get(bms_data, "soc").num),
                     den |-> 100 * Get(bms_data, "soc").den]) >>
        ELSE << >>)
    \o (IF Has(bms_data, "cycles")
        THEN << Assignment("/History/ChargeCycles",
                    [num |-> Get(bms_data, "cycles").num \div Get(bms_data, "cycles").den,
                     den |-> 1]) >>
        ELSE << >>)
    \o (IF Has(bms_data, "ah_since_eq")
        THEN << Assignment("/History/TotalAhDrawn", Get(bms_data, "ah_since_eq")) >>
        ELSE << >>)

\* The paths after the first n assignments of the sequence have been made.
Assigned(published, assignments, n) ==
    [p \in Paths |->
        IF \E i \in 1 .. n : assignments[i].path = p
        THEN Some(assignments[CHOOSE i \in 1 .. n : assignments[i].path = p].value)
        ELSE published[p]]

\* _update_dbus that clears the path of every parameter bms_data lacks.
UpdateDbusClearsAbsent(published, bms_data, failAt) ==
    LET assignments == Assignments(bms_data)
    IN  [p \in Paths |->
            IF \E i \in 1 .. Len(assignments) : assignments[i].path = p
            THEN Assigned(published, assignments, Len(assignments))[p]
            ELSE None]

\* _update_dbus(bms_data): the assignments are made in order; when assignment
\* number failAt raises (the D-Bus connection is gone) the except branch logs
\* the error and the later ones are not made. failAt = 0: none raises.
UpdateDbus(published, bms_data, failAt) ==
    LET assignments == Assignments(bms_data)
        n == IF failAt \in 1 .. Len(assignments) THEN failAt - 1 ELSE Len(assignments)
    IN  Assigned(published, assignments, n)

\* The service once run() has set up the client and the monitors and has
\* registered the timer. phase is where the main thread is: in GLib's main
\* loop, in _update_callback between two batteries, or in update() of battery
\* number idx. due: the timer has expired and its callback has not been
\* called yet. timer: the timer source is registered. cycles counts the calls
\* of _update_callback and serves as the clock of last_update; updated is the
\* list of what update() returned for each battery in the current call. auto:
\* config['CAN']['node_ids'] is 'auto'; node_ids: the nodes setup_canopen
\* settled on; result: what run() returned.
Service(batteries) ==
    [phase |-> "mainloop", auto |-> FALSE, node_ids |-> << >>, batteries |-> batteries,
     idx |-> 0, cycles |-> 0, due |-> FALSE, timer |-> TRUE, updated |-> << >>,
     result |-> None]

\* The interval of GLib.timeout_add has elapsed.
TimerExpire ==
    /\ svc.phase \in { "mainloop", "callback", "update" }
    /\ svc.timer
    /\ ~svc.due
    /\ svc.cycles < MaxCycles
    /\ svc' = [svc EXCEPT !.due = TRUE]
    /\ UNCHANGED << conn, nsent, pending, rx, noise, pc, cur, elapsed, seen, out, outer, ret >>

\* A main loop that dispatches a due timer whatever the main thread is doing.
UpdateCallbackReentrant ==
    /\ svc.phase \in { "mainloop", "callback", "update" }
    /\ svc.due
    /\ svc' = [svc EXCEPT !.phase = "callback", !.idx = 1, !.cycles = @ + 1,
                          !.due = FALSE, !.updated = << >>]
    /\ UNCHANGED << conn, nsent, pending, rx, noise, pc, cur, elapsed, seen, out, outer, ret >>

\* GLib's main loop calls _update_callback: it dispatches a due source only
\* between callbacks, on the thread that runs mainloop.run().
UpdateCallback ==
    /\ svc.phase = "mainloop"
    /\ svc.due
    /\ svc' = [svc EXCEPT !.phase = "callback", !.idx = 1, !.cycles = @ + 1,
                          !.due = FALSE, !.updated = << >>]
    /\ UNCHANGED << conn, nsent, pending, rx, noise, pc, cur, elapsed, seen, out, outer, ret >>

\* for battery in self.batteries: battery.update(), up to the call of
\* read_all_parameters(self.node_id). Like a direct caller's, the call starts
\* on a quiet bus.
Update ==
    /\ svc.phase = "callback"
    /\ svc.idx <= Len(svc.batteries)
    /\ pending = {}
    /\ rx = << >>
    /\ ReadAllCall(svc.batteries[svc.idx].node_id)
    /\ svc' = [svc EXCEPT !.phase = "update"]
    /\ UNCHANGED << conn, nsent, pending, rx, noise, cur, elapsed, seen >>

\* update() after read_all_parameters has returned bms_data: the battery as
\* the call leaves it.
UpdateAfterRead(battery, bms_data, failAt) ==
    IF bms_data = << >>
    THEN battery
    ELSE [battery EXCEPT
            !.published = IF battery.dbus THEN UpdateDbus(@, bms_data, failAt) ELSE @,
            !.last_update = svc.cycles]

\* update() returns False when no data came, True otherwise.
UpdateResult(bms_data) == bms_data # << >>

\* read_all_parameters has returned to update(), which finishes; the for loop
\* of _update_callback goes on with the next battery.
UpdateDone(failAt) ==
    /\ svc.phase = "update"
    /\ pc = "idle"
    /\ ret.op = "all"
    /\ svc' = [svc EXCEPT
                 !.phase = "callback",
                 !.batteries[svc.idx] = UpdateAfterRead(@, ret.value, failAt),
                 !.updated = Append(@, [idx |-> svc.idx, result |-> UpdateResult(ret.value)]),
                 !.idx = @ + 1]
    /\ UNCHANGED << conn, nsent, pending, rx, noise, pc, cur, elapsed, seen, out, outer, ret >>

\* What _update_callback hands back to GLib.
CallbackResultLastUpdate ==
    svc.updated = << >> \/ svc.updated[Len(svc.updated)].result

CallbackResult == TRUE

\* The for loop is exhausted: _update_callback returns, and GLib keeps the
\* timer exactly when the value returned is true.
UpdateCallbackReturn ==
    /\ svc.phase = "callback"
    /\ svc.idx > Len(svc.batteries)
    /\ svc' = [svc EXCEPT !.phase = "mainloop", !.timer = CallbackResult,
                          !.due = @ /\ CallbackResult]
    /\ UNCHANGED << conn, nsent, pending, rx, noise, pc, cur, elapsed, seen, out, outer, ret >>

\* The nodes the monitors poll, and the assignment _update_dbus may fail at.
ServiceNodes == << 1, 2 >>
DbusFailures == { 0, 2 }

\* What the nodes answer with.
ServicePayloads == { << 232, 3, 2, 6 >> }

\* The node answers the request the client is waiting on.
NodeAnswers(payloads) ==
    \E q \in pending : \E cmd \in ResponseCmds(q) : \E p \in payloads :
        /\ pc = "read"
        /\ q.req = cur.req
        /\ NodeRespond(q, cmd, p)

ServiceRespond == NodeAnswers(ServicePayloads)

\* The node leaves a request unanswered for good, the read having timed out.
ServiceSilent ==
    \E q \in pending :
        /\ pc # "read"
        /\ pending' = pending \ {q}
        /\ UNCHANGED << svc, conn, nsent, rx, noise, pc, cur, elapsed, seen, out, outer, ret >>

InitService ==
    /\ bus = 1
    /\ acquired = 1
    /\ shut = [h \in {1} |-> 0]
    /\ nsent = 0
    /\ pending = {}
    /\ rx = << >>
    /\ noise = 0
    /\ pc = "idle"
    /\ cur = NoCall
    /\ elapsed = 0
    /\ seen = << >>
    /\ out = << >>
    /\ outer = NoOuter
    /\ ret = NoRet
    /\ svc = Service([i \in 1 .. Len(ServiceNodes) |-> Battery(ServiceNodes[i], TRUE)])

\* The polling cycles of a service with two batteries.
NextCycle ==
    \/ TimerExpire
    \/ UpdateCallback
    \/ Update
    \/ \E failAt \in DbusFailures : UpdateDone(failAt)
    \/ UpdateCallbackReturn
    \/ AllStep(TRUE)
    \/ ReadRecvFrame(0)
    \/ ReadRecvNone
    \/ ReadTimeout
    \/ ServiceRespond
    \/ ServiceSilent
SpecCycle == InitService /\ [][NextCycle]_vars

\* C22: the service never has two request/response pairs in flight on its
\* client. A request frame is sent only by a step taken while no read is
\* polling; polling for a response ends only with the read returning its
\* result; read_all_parameters is entered only by an idle client; and
\* _update_callback is entered only from the main loop, never while an earlier
\* call of it is still running.
C22_OnePairInFlight ==
    [][ /\ nsent' # nsent => pc # "read"
        /\ (pc = "read" /\ pc' # "read") => ret' # NoRet
        /\ (pc' = "all" /\ outer' # outer /\ outer'.done = << >>) => pc = "idle"
        /\ svc'.cycles # svc.cycles => svc.phase = "mainloop" ]_vars

\* The read of the second battery is polling in the first cycle, the first
\* battery's update has returned, and the timer has expired again meanwhile.
C22_Witness ==
    /\ svc.phase = "update"
    /\ svc.idx = 2
    /\ Len(svc.updated) = 1
    /\ svc.due
    /\ pc = "read"
    /\ cur.node = 2
    /\ pending # {}

\* ------------------------------------------------------------ run()
\* The service as __init__ leaves it: no client yet, no batteries.
NewService(auto) ==
    [Service(<< >>) EXCEPT !.phase = "new", !.auto = auto, !.timer = FALSE]

\* The addresses the auto-detection probes: the first of range(1, 10).
ServiceScanRange == << 1, 2 >>

\* run() calls setup_canopen(), which creates the client and calls connect().
\* If that fails setup_canopen returns False and run() returns False.
SetupCanopen(ok) ==
    /\ svc.phase = "new"
    /\ ConnectBus(ok)
    /\ ret' = Ret("connect", ok, IF ok THEN "Connected" ELSE "Failed to connect to CAN bus", 0)
    /\ svc' = IF ok THEN [svc EXCEPT !.phase = "connected"]
              ELSE [svc EXCEPT !.phase = "returned", !.result = Some(FALSE)]
    /\ UNCHANGED << nsent, pending, noise, pc, cur, elapsed, seen, out, outer >>

\* Determine node IDs: scan_network(range(1, 10)) when the configuration says
\* 'auto', the configured list otherwise.
SetupNodeIds ==
    /\ svc.phase = "connected"
    /\ IF svc.auto
       THEN /\ ScanCall(ServiceScanRange)
            /\ svc' = [svc EXCEPT !.phase = "scan"]
       ELSE /\ svc' = [svc EXCEPT !.phase = "monitors", !.node_ids = ServiceNodes]
            /\ UNCHANGED << pc, outer, out, ret >>
    /\ UNCHANGED << conn, nsent, pending, rx, noise, cur, elapsed, seen >>

\* scan_network has returned node_ids: an empty list makes setup_canopen log
\* "No CANopen nodes found" and return False, and run() return False.
ScanDone ==
    /\ svc.phase = "scan"
    /\ pc = "idle"
    /\ ret.op = "scan"
    /\ ~ret.raised
    /\ svc' = IF ret.value = << >>
              THEN [svc EXCEPT !.phase = "returned", !.result = Some(FALSE)]
              ELSE [svc EXCEPT !.phase = "monitors", !.node_ids = ret.value]
    /\ UNCHANGED << conn, nsent, pending, rx, noise, pc, cur, elapsed, seen, out, outer, ret >>

\* The monitors setup_canopen appends: one for each node whose setup_dbus()
\* returned True (all of them when VeDbusService is missing).
Monitors(node_ids, ok, veDbus) ==
    LET kept == { i \in 1 .. Len(node_ids) : ~veDbus \/ i \in ok }
        F[i \in 0 .. Len(node_ids)] ==
            IF i = 0 THEN << >>
            ELSE IF i \in kept THEN Append(F[i - 1], Battery(node_ids[i], veDbus))
            ELSE F[i - 1]
    IN  F[Len(node_ids)]

\* The rest of run() after setup_canopen's scan: the loop that creates the
\* monitors; without a monitor setup_canopen returns False and so does run();
\* otherwise run() registers the timer and enters the main loop.
SetupMonitors(ok, veDbus) ==
    /\ svc.phase = "monitors"
    /\ LET batteries == Monitors(svc.node_ids, ok, veDbus)
       IN  svc' = IF batteries = << >>
                  THEN [svc EXCEPT !.phase = "returned", !.result = Some(FALSE)]
                  ELSE [svc EXCEPT !.phase = "mainloop", !.batteries = batteries,
                                   !.timer = TRUE]
    /\ UNCHANGED << conn, nsent, pending, rx, noise, pc, cur, elapsed, seen, out, outer, ret >>

\* cleanup(): if self.canopen_client: self.canopen_client.disconnect()
Cleanup == DisconnectBus

\* mainloop.run() ends, by KeyboardInterrupt, an exception or quit(): the
\* finally clause calls cleanup() and run() returns True.
MainloopExit ==
    /\ svc.phase = "mainloop"
    /\ Cleanup
    /\ ret' = Ret("disconnect", None, IF bus # 0 THEN "Disconnected from CAN bus" ELSE "", 0)
    /\ svc' = [svc EXCEPT !.phase = "returned", !.timer = FALSE, !.due = FALSE,
                          !.result = Some(TRUE)]
    /\ UNCHANGED << acquired, nsent, pending, noise, pc, cur, elapsed, seen, out, outer >>

InitRun ==
    /\ bus = 0
    /\ acquired = 0
    /\ shut = [h \in {} |-> 0]
    /\ nsent = 0
    /\ pending = {}
    /\ rx = << >>
    /\ noise = 0
    /\ pc = "idle"
    /\ cur = NoCall
    /\ elapsed = 0
    /\ seen = << >>
    /\ out = << >>
    /\ outer = NoOuter
    /\ ret = NoRet
    /\ \E auto \in BOOLEAN : svc = NewService(auto)

\* run() from the start: setup, polling cycles, exit.
NextRun ==
    \/ \E ok \in BOOLEAN : SetupCanopen(ok)
    \/ SetupNodeIds
    \/ ScanStep(TRUE)
    \/ ScanDone
    \/ \E ok \in SUBSET (1 .. Len(ServiceNodes)), veDbus \in BOOLEAN : SetupMonitors(ok, veDbus)
    \/ MainloopExit
    \/ TimerExpire
    \/ UpdateCallback
    \/ Update
    \/ \E failAt \in DbusFailures : UpdateDone(failAt)
    \/ UpdateCallbackReturn
    \/ AllStep(TRUE)
    \/ ReadRecvFrame(0)
    \/ ReadRecvNone
    \/ ReadTimeout
    \/ ServiceRespond
    \/ ServiceSilent
SpecRun == InitRun /\ [][NextRun]_vars

\* C23: whenever run() has returned after the client connected, the client's
\* transport has been released: self.bus is None and the handle connect()
\* acquired has been shut down once.
C23_RunReleasesTransport ==
    (svc.phase = "returned" /\ acquired > 0) =>
        (bus = 0 /\ \A h \in DOMAIN shut : shut[h] = 1)

\* ------------------------------------------------- receive errors
\* A read or write with a deadline of three ticks on a transport whose recv()
\* may raise. Frames arrive without delay and a recv() that returns None has
\* used up the time that was left, so that before the deadline time passes
\* only in a recv() that raises.
ErrTimeout == 3

NextErr ==
    \/ Respond
    \/ \E f \in { Frame(SDO_TX_BASE + 2, <<67, 0, 16, 0, 9, 0, 0, 0>>, -1) } : Inject(f)
    \/ \E n \in Nodes, o \in Objs, sendOk \in BOOLEAN : ReadSdo(n, o[1], o[2], ErrTimeout, sendOk)
    \/ ReadRecvFrame(0)
    \/ ReadRecvNone
    \/ \E dt \in 1 .. 2 : ReadRecvError(dt)
    \/ ReadTimeout
    \/ \E n \in Nodes, o \in Objs, sendOk \in BOOLEAN :
          WriteSdo(n, o[1], o[2], << 7 >>, ErrTimeout, sendOk)
    \/ WriteRecvFrame(0)
    \/ WriteRecvNone
    \/ WriteRecvError
    \/ WriteTimeout
SpecErr == InitConnected /\ [][NextErr]_vars

\* C24: a step of a polling read in which time passes, no frame is taken and
\* the deadline is not reached (recv() raised) leaves the read polling with
\* no result; a read that ends without having taken a frame in that step ends
\* at or after the deadline with the outcome of a timeout; a write that ends
\* with "SDO write error" (recv() raised) ends in that very step, before its
\* deadline, returning False.
C24_RecvErrorReadGoesOnWriteEnds ==
    [][ /\ (pc = "read" /\ elapsed' > elapsed /\ elapsed' < cur.timeout /\ seen' = seen) =>
               (pc' = "read" /\ ret' = NoRet /\ cur' = cur)
        /\ (pc = "read" /\ pc' # "read" /\ seen' = seen) =>
               /\ elapsed >= cur.timeout
               /\ ret'.value = << None, None >>
               /\ ret'.log = "SDO timeout"
        /\ (pc = "write" /\ ret'.log = "SDO write error") =>
               /\ pc' = "idle"
               /\ ret'.value = FALSE
               /\ elapsed' = elapsed
               /\ elapsed < cur.timeout ]_vars

\* recv() has raised twice during a read, which is still polling, one tick
\* before its deadline, with no frame taken and no result.
C24_Witness ==
    /\ pc = "read"
    /\ cur.op = "read"
    /\ elapsed = 2
    /\ cur.timeout = ErrTimeout
    /\ seen = << >>
    /\ ret = NoRet

\* C25: the update callback stays scheduled: as long as run() is in its main
\* loop, between or inside calls of _update_callback, the timer is registered;
\* and every call of _update_callback that has returned has called update() of
\* every battery, in order, whatever the earlier updates returned.
C25_CallbackStaysScheduled ==
    /\ svc.phase \in { "mainloop", "callback", "update" } => svc.timer
    /\ (svc.phase = "mainloop" /\ svc.cycles > 0) =>
           /\ Len(svc.updated) = Len(svc.batteries)
           /\ \A i \in 1 .. Len(svc.updated) : svc.updated[i].idx = i

\* The second cycle has returned: the update of the first battery has failed
\* in both cycles, the second battery was updated in the second cycle all the
\* same, and the timer is still registered.
C25_Witness ==
    /\ svc.phase = "mainloop"
    /\ svc.cycles = 2
    /\ svc.timer
    /\ svc.updated = << [idx |-> 1, result |-> FALSE], [idx |-> 2, result |-> TRUE] >>
    /\ svc.batteries[1].last_update = 0
    /\ svc.batteries[2].last_update = 2

\* ------------------------------------------------- one battery, two values
\* A service with a single battery whose node answers with two different
\* values, so that a value published in one cycle can differ from the one
\* read in the next. dbus: whether the monitor has a D-Bus service.
InitPublish ==
    /\ bus = 1
    /\ acquired = 1
    /\ shut = [h \in {1} |-> 0]
    /\ nsent = 0
    /\ pending = {}
    /\ rx = << >>
    /\ noise = 0
    /\ pc = "idle"
    /\ cur = NoCall
    /\ elapsed = 0
    /\ seen = << >>
    /\ out = << >>
    /\ outer = NoOuter
    /\ ret = NoRet
    /\ \E dbus \in BOOLEAN : svc = Service(<< Battery(1, dbus) >>)

NextPublish ==
    \/ TimerExpire
    \/ UpdateCallback
    \/ Update
    \/ \E failAt \in DbusFailures : UpdateDone(failAt)
    \/ UpdateCallbackReturn
    \/ AllStep(TRUE)
    \/ ReadRecvFrame(0)
    \/ ReadRecvNone
    \/ ReadTimeout
    \/ NodeAnswers(Payloads)
    \/ ServiceSilent
SpecPublish == InitPublish /\ [][NextPublish]_vars

\* The parameters a path is computed from.
ParamsOf(path) ==
    CASE path = "/Dc/0/Voltage"         -> { "voltage" }
      [] path = "/Dc/0/Current"         -> { "current" }
      [] path = "/Dc/0/Power"           -> { "voltage", "current" }
      [] path = "/Dc/0/Temperature"     -> { "temperature" }
      [] path = "/Soc"                  -> { "soc" }
      [] path = "/ConsumedAmphours"     -> { "soc" }
      [] path = "/History/ChargeCycles" -> { "cycles" }
      [] path = "/History/TotalAhDrawn" -> { "ah_since_eq" }

\* C26: when update() returns, the battery's published value of every path
\* one of whose parameters is absent from the dictionary read_all_parameters
\* returned in that call is what it was before; when the dictionary is empty
\* the whole battery, last_update included, is as before; and no other
\* battery is touched.
C26_AbsentLeavesPublished ==
    [][ (svc.phase = "update" /\ svc'.phase = "callback") =>
          LET bms_data == ret.value
              before == svc.batteries[svc.idx]
              after == svc'.batteries[svc.idx]
          IN  /\ \A p \in Paths :
                    (\E name \in ParamsOf(p) : ~Has(bms_data, name)) =>
                        after.published[p] = before.published[p]
              /\ bms_data = << >> => after = before
              /\ \A i \in 1 .. Len(svc.batteries) :
                    i # svc.idx => svc'.batteries[i] = svc.batteries[i] ]_vars

\* The node was silent throughout the second cycle: update() has returned
\* False, and the state of charge and the voltage published in the first cycle
\* are still there, last_update still being the first cycle.
C26_Witness ==
    /\ svc.cycles = 2
    /\ svc.phase = "callback"
    /\ svc.updated = << [idx |-> 1, result |-> FALSE] >>
    /\ ret.op = "all"
    /\ ret.value = << >>
    /\ svc.batteries[1].last_update = 1
    /\ svc.batteries[1].published["/Soc"] = Some(Converted(232, 1))
    /\ svc.batteries[1].published["/Dc/0/Voltage"] # None
    /\ svc.batteries[1].published["/Dc/0/Temperature"] = None
====
